---- MODULE Spec2Model ----
(***************************************************************************)
(* The multi-engine operation orchestrator of the delphixpy example        *)
(* scripts: main / run_job / main_workflow of js_container.py,             *)
(* dx_environment.py, dx_replication.py and dx_jobs.py, together with the  *)
(* process-wide session object dx_session_obj they share.                  *)
(*                                                                         *)
(* Python values: None is modelled as 0 (engine, session, job handle), an  *)
(* unbound local as -1.  Engines of dxtools.conf are named 1..N; a session *)
(* object is named by the thread that opened it, a job by the thread whose *)
(* submit created it.                                                      *)
(***************************************************************************)
EXTENDS Integers, Sequences, FiniteSets, TLC

MaxEngines == 2

\* the runs explored start at most this many threads
MaxThreads == 2

None == 0
Unbound == 0 - 1

EngineNames == 1..MaxEngines


Scripts == {"js_container", "dx_environment", "dx_replication", "dx_jobs"}

Terminal == {"CANCELED", "COMPLETED", "FAILED"}
NonTerminal == {"RUNNING", "SUSPENDED"}
JobStates == Terminal \cup NonTerminal

VARIABLES
    script,          \* which of the four scripts runs
    arguments,       \* docopt result: [op, all, engine]
    dlpx_engines,    \* dx_session_obj.dlpx_engines, in iteration order
    accepts,         \* per engine: does it accept the requested operation
    mainpc,          \* position of the main thread
    engine,          \* local variable engine of run_job
    idx,             \* loop index of run_job (start loop, join loop)
    threads,         \* the threads started by main_workflow
    server_session,  \* dx_session_obj.server_session (a session object or None)
    jobs,            \* dx_session_obj.jobs: tracking key -> job handle
    jobState,        \* engine side: job handle -> [engine, state]
    exitCode,        \* exit status of the process once the main thread ended
    mainErr,         \* the exception that ended the main thread, "" when none
    interrupted,     \* the operator sent CTRL+C
    submits,         \* history: engine -> number of mutating calls it received
    insertedBy,      \* history: tracking key -> the thread that stored the entry
    seenTerminal,    \* history: the job handles a fetch has reported terminal
    call             \* a call of a library function: [fn, args, done, result]

vars == <<script, arguments, dlpx_engines, accepts, mainpc, engine, idx,
          threads, server_session, jobs, jobState, exitCode, mainErr,
          interrupted, submits, insertedBy, seenTerminal, call>>

-----------------------------------------------------------------------------
(* The command line and the configuration                                  *)

\* the one domain action of a run (the dispatch chain of main_workflow)
Ops(s) ==
    CASE s = "js_container"   -> {"create_container"}
      [] s = "dx_environment" -> {"create_linux_env", "delete_env"}
      [] s = "dx_replication" -> {"create_replication_job", "list_replication_jobs"}
      [] s = "dx_jobs"        -> {"list_jobs"}

\* dxtools.conf holding n engines, flags d: the engines are named 1..n
Config(n, d) == [i \in 1..n |-> [hostname |-> i, default |-> d[i]]]

Configured == {dlpx_engines[i].hostname : i \in 1..Len(dlpx_engines)}

NumEngines == Len(dlpx_engines)

\* dx_session_obj[delphix_engine] in the --all loop of run_job
GetItem(name) == dlpx_engines[name].hostname

\* a thread object right after Thread.start(): main_workflow(engine) not yet run
\* (polled: the jobs whose status the thread has fetched since it last slept)
NewThread(e) ==
    [eng |-> e, pc |-> "serversess", thingstodo |-> TRUE, keys |-> {},
     j |-> None, cur |-> "", err |-> "", at |-> "", last_job |-> None,
     polled |-> {}]

-----------------------------------------------------------------------------
(* main: exception handlers, and run_job's choice of the target engines    *)

\* the except clauses of main: the exit status an exception leads to
MainExitCode(s, exc) ==
    CASE exc = "SystemExit"        -> 1
      [] exc = "DlpxException"     -> IF s \in {"js_container", "dx_environment"} THEN 2 ELSE 1
      [] exc = "HttpError"         -> IF s \in {"js_container", "dx_environment"} THEN 2 ELSE 1
      [] exc = "JobError"          -> 3
      [] exc = "KeyboardInterrupt" -> 0
      [] OTHER                     -> 1

\* engine = None at the top of run_job; dx_jobs.run_job never binds it
InitialEngine(s) == IF s = "dx_jobs" THEN Unbound ELSE None

\* the search for the default engine: the loop breaks after its first pass
DefaultSearch(cfg, e0) ==
    IF Len(cfg) > 0 /\ cfg[1].default THEN cfg[1].hostname ELSE e0

\* what "no default engine" raises, per script
NoDefaultRaises(s) ==
    CASE s = "dx_environment" -> "SystemExit"
      [] s = "dx_jobs"        -> "UnboundLocalError"
      [] OTHER                -> "DlpxException"

\* the except KeyError clause of the --engine branch: report and go on, or raise
UnknownEngineRaises(s) ==
    IF s \in {"js_container", "dx_environment"} THEN "" ELSE "DlpxException"

\* is the final main_workflow(engine) of run_job also run after the --all loop
FinalStartAfterAll(s) == s \in {"dx_replication", "dx_jobs"}

\* the main thread ends with exception exc, raised for the reason what
MainRaise(exc, what) ==
    /\ mainpc' = "exited"
    /\ mainErr' = [exc |-> exc, what |-> what]
    /\ exitCode' = MainExitCode(script, exc)

NoError == [exc |-> "", what |-> ""]

\* Python dict operations: d = {}, d[k] = v, del d[k]
\* what a call has produced: nothing yet, a returned value, a raised exception
NoResult == [kind |-> "none", value |-> None]
Return(v) == [kind |-> "return", value |-> v]
Raise(exc) == [kind |-> "raise", value |-> exc]

\* no library function is being called
NoCall == [fn |-> "none", args |-> <<>>, done |-> FALSE, result |-> NoResult]

EmptyDict == [k \in {} |-> None]
Put(d, k, v) == [x \in (DOMAIN d) \cup {k} |-> IF x = k THEN v ELSE d[x]]
Del(d, k) == [x \in (DOMAIN d) \ {k} |-> d[x]]

Init ==
    /\ script \in Scripts
    /\ \E n \in 0..MaxEngines :
         /\ \E d \in [1..n -> BOOLEAN] : dlpx_engines = Config(n, d)
         /\ accepts \in [1..n -> BOOLEAN]
         /\ \E o \in Ops(script), a \in BOOLEAN, e \in 0..(n + 1) :
              /\ a => e = None
              /\ arguments = [op |-> o, all |-> a, engine |-> e]
    \* the number of threads the run starts is within the bound
    /\ arguments.all =>
           Len(dlpx_engines) + (IF FinalStartAfterAll(script) THEN 1 ELSE 0) <= MaxThreads
    \* the default flags are read in the default mode only
    /\ (arguments.all \/ arguments.engine # None) =>
           \A i \in 1..Len(dlpx_engines) : ~dlpx_engines[i].default
    /\ mainpc = "main"
    /\ engine = None
    /\ idx = 1
    /\ threads = <<>>
    /\ server_session = None
    /\ jobs = EmptyDict
    /\ jobState = EmptyDict
    /\ exitCode = Unbound
    /\ mainErr = NoError
    /\ interrupted = FALSE
    /\ submits = [e \in EngineNames |-> 0]
    /\ insertedBy = EmptyDict
    /\ seenTerminal = {}
    /\ call = NoCall

workerVars == <<threads, server_session, jobs, jobState, submits, insertedBy,
               seenTerminal>>
inputVars == <<script, arguments, dlpx_engines, accepts, call>>

\* main up to run_job: GetSession(), get_config(config_file_path)
GetConfig ==
    /\ mainpc = "main"
    /\ \/ /\ mainpc' = "run_job"
          /\ UNCHANGED <<exitCode, mainErr>>
       \/ MainRaise("DlpxException", "config")
    /\ UNCHANGED <<inputVars, workerVars, engine, idx, interrupted>>

\* run_job up to its first main_workflow call: the three selection modes
RunJob ==
    /\ mainpc = "run_job"
    /\ idx' = 1
    /\ IF arguments.all
       THEN /\ engine' = InitialEngine(script)
            /\ mainpc' = IF NumEngines > 0 THEN "start_all"
                         ELSE IF FinalStartAfterAll(script) THEN "start_one"
                         ELSE "join"
            /\ UNCHANGED <<exitCode, mainErr>>
       ELSE IF arguments.engine # None
       THEN IF arguments.engine \in Configured
            THEN /\ engine' = arguments.engine
                 /\ mainpc' = "start_one"
                 /\ UNCHANGED <<exitCode, mainErr>>
            ELSE IF UnknownEngineRaises(script) = ""
            THEN /\ engine' = InitialEngine(script)
                 /\ mainpc' = "start_one"
                 /\ UNCHANGED <<exitCode, mainErr>>
            ELSE /\ engine' = InitialEngine(script)
                 /\ MainRaise(UnknownEngineRaises(script), "unknown engine")
       ELSE /\ engine' = DefaultSearch(dlpx_engines, InitialEngine(script))
            /\ IF engine' \in {None, Unbound}
               THEN MainRaise(NoDefaultRaises(script),
                              IF engine' = None THEN "no default engine"
                              ELSE "engine referenced before assignment")
               ELSE /\ mainpc' = "start_one"
                    /\ UNCHANGED <<exitCode, mainErr>>
    /\ UNCHANGED <<inputVars, workerVars, interrupted>>

\* one pass of "for delphix_engine in dx_session_obj.dlpx_engines" under --all
StartAll ==
    /\ mainpc = "start_all"
    /\ idx <= NumEngines
    /\ engine' = GetItem(idx)
    /\ threads' = Append(threads, NewThread(engine'))
    /\ IF idx < NumEngines
       THEN /\ idx' = idx + 1
            /\ mainpc' = "start_all"
       ELSE /\ idx' = 1
            /\ mainpc' = IF FinalStartAfterAll(script) THEN "start_one" ELSE "join"
    /\ UNCHANGED <<inputVars, server_session, jobs, jobState, submits,
                   insertedBy, seenTerminal, exitCode, mainErr, interrupted>>

\* "run the job against the engine": threads.append(main_workflow(engine))
StartOne ==
    /\ mainpc = "start_one"
    /\ IF engine = Unbound
       THEN /\ MainRaise("UnboundLocalError", "engine referenced before assignment")
            /\ UNCHANGED <<threads, idx>>
       ELSE /\ threads' = Append(threads, NewThread(engine))
            /\ mainpc' = "join"
            /\ idx' = 1
            /\ UNCHANGED <<exitCode, mainErr>>
    /\ UNCHANGED <<inputVars, engine, server_session, jobs, jobState, submits,
                   insertedBy, seenTerminal, interrupted>>

Finished(t) == threads[t].pc \in {"DONE", "ERROR"}

\* a run_job without the join loop: it returns as soon as the threads are started
JoinWithoutWaiting ==
    /\ mainpc = "join"
    /\ mainpc' = "exited"
    /\ exitCode' = 0
    /\ UNCHANGED <<inputVars, workerVars, engine, idx, mainErr, interrupted>>

\* "for each in threads: each.join()" returns once every thread has ended; then
\* main prints its last line and returns
Join ==
    /\ mainpc = "join"
    /\ \A t \in 1..Len(threads) : Finished(t)
    /\ mainpc' = "exited"
    /\ exitCode' = 0
    /\ UNCHANGED <<inputVars, workerVars, engine, idx, mainErr, interrupted>>

\* CTRL+C reaches the main thread: except KeyboardInterrupt of main
Interrupt ==
    /\ mainpc \in {"run_job", "start_all", "start_one", "join"}
    /\ interrupted' = TRUE
    /\ MainRaise("KeyboardInterrupt", "interrupt")
    /\ UNCHANGED <<inputVars, workerVars, engine, idx>>

-----------------------------------------------------------------------------
(* main_workflow: one thread per call, all sharing dx_session_obj          *)

\* where the submitting function stores the job handle, if anywhere
TrackPolicy(s, op) ==
    CASE op \in {"create_linux_env", "delete_env"} -> "own_hostname"
      [] op = "create_replication_job"             -> "session_address"
      [] OTHER                                     -> "none"

\* does the operation look a name up (find_obj_by_name) before its remote call
Resolves(s, op) == op \in {"create_container", "delete_env", "create_replication_job"}

\* does the operation issue a mutating remote call
Mutating(s, op) == op \notin {"list_replication_jobs", "list_jobs"}

\* what an exception raised while submitting does to the thread: the except
\* clauses of the submitting function, then those of main_workflow
SubmitErrors(s, op, exc) ==
    CASE op = "create_linux_env"       -> "continue"
      [] op = "create_replication_job" -> "continue"
      [] OTHER                         -> "ERROR"

\* what an exception raised by job.get does to the thread
PollErrors(s, exc) == "ERROR"

\* is "if len(jobs) > 0: sleep(...)" inside the for loop over the job keys
SleepInsideFor(s) == s \in {"js_container", "dx_replication"}

\* the thread ends: its locals are gone
Ended(t, how) ==
    [threads EXCEPT ![t].pc = how, ![t].keys = {}, ![t].j = None,
                    ![t].cur = "", ![t].thingstodo = FALSE, ![t].polled = {}]

\* exception exc raised in thread t ends it; err and at keep what was raised where
Fail(t, exc) == [Ended(t, "ERROR") EXCEPT ![t].err = exc, ![t].at = threads[t].pc]

\* the engine a session object is connected to
SessionEngine(sess) == threads[sess].eng

\* GetSession.serversess: the session it opens for thread t's engine becomes
\* dx_session_obj.server_session, the attribute every later call reads
serversess(t) == t

\* the same with an except clause that only prints: the thread goes on
ServerSessPrintOnly(t) ==
    /\ threads[t].pc = "serversess"
    /\ IF threads[t].eng = None
       THEN /\ threads' = Fail(t, "TypeError")
            /\ UNCHANGED server_session
       ELSE \/ /\ threads' = [threads EXCEPT ![t].pc = "submit"]
               /\ server_session' = serversess(t)
            \/ /\ threads' = [threads EXCEPT ![t].pc = "submit",
                                             ![t].err = "DlpxException",
                                             ![t].at = "serversess"]
               /\ server_session' = serversess(t)
    /\ UNCHANGED <<inputVars, mainpc, engine, idx, insertedBy, seenTerminal,
                   jobs, jobState, exitCode, mainErr, interrupted, submits>>

\* the same with the for loop over the jobs placed ahead of the dispatch
ServerSessThenPoll(t) ==
    /\ threads[t].pc = "serversess"
    /\ IF threads[t].eng = None
       THEN /\ threads' = Fail(t, "TypeError")
            /\ UNCHANGED server_session
       ELSE \/ /\ threads' = [threads EXCEPT ![t].pc = "snap"]
               /\ server_session' = serversess(t)
            \/ /\ threads' = Fail(t, "DlpxException")
               /\ UNCHANGED server_session
    /\ UNCHANGED <<inputVars, mainpc, engine, idx, insertedBy, seenTerminal,
                   jobs, jobState, exitCode, mainErr, interrupted, submits>>

\* dx_session_obj.serversess(engine['ip_address'], ...), and its except clause
ServerSess(t) ==
    /\ threads[t].pc = "serversess"
    /\ IF threads[t].eng = None
       THEN /\ threads' = Fail(t, "TypeError")
            /\ UNCHANGED server_session
       ELSE \/ /\ threads' = [threads EXCEPT ![t].pc = "submit"]
               /\ server_session' = serversess(t)
            \/ /\ threads' = Fail(t, "DlpxException")
               /\ UNCHANGED server_session
    /\ UNCHANGED <<inputVars, mainpc, engine, idx, insertedBy, seenTerminal,
                   jobs, jobState, exitCode, mainErr, interrupted, submits>>

\* the same with the tracker assignment reached whether or not the call raised
AfterSubmitAlwaysTracking(t, ok) ==
    IF TrackPolicy(script, arguments.op) # "none"
    THEN [threads EXCEPT ![t].pc = "track"]
    ELSE [threads EXCEPT ![t].pc = "snap", ![t].thingstodo = FALSE]

\* the same without thingstodo.pop(): the work item stays in the list
AfterSubmitKeepingItem(t, ok) ==
    IF ok /\ TrackPolicy(script, arguments.op) # "none"
    THEN [threads EXCEPT ![t].pc = "track"]
    ELSE [threads EXCEPT ![t].pc = "snap"]

\* after the submitting function returned: thingstodo.pop() and on to the for loop
AfterSubmit(t, ok) ==
    IF ok /\ TrackPolicy(script, arguments.op) # "none"
    THEN [threads EXCEPT ![t].pc = "track"]
    ELSE [threads EXCEPT ![t].pc = "snap", ![t].thingstodo = FALSE]

\* "if len(thingstodo) > 0": the operation's lookup and remote call
Submit(t) ==
    /\ threads[t].pc = "submit"
    /\ LET sess == server_session
           e    == SessionEngine(sess)
           op   == arguments.op
           raise(exc) == IF SubmitErrors(script, op, exc) = "continue"
                         THEN [AfterSubmit(t, FALSE) EXCEPT ![t].err = exc,
                                                            ![t].at = "submit"]
                         ELSE Fail(t, exc)
       IN  /\ \/ /\ threads' = raise("HttpError")
                 /\ UNCHANGED <<submits, jobState>>
              \/ /\ ~accepts[e]
                 /\ \/ /\ Resolves(script, op)
                       /\ threads' = raise("DlpxException")
                       /\ UNCHANGED submits
                    \/ /\ threads' = raise("RequestError")
                       /\ submits' = IF Mutating(script, op)
                                     THEN [submits EXCEPT ![e] = @ + 1]
                                     ELSE submits
                 /\ UNCHANGED jobState
              \/ /\ accepts[e]
                 /\ submits' = IF Mutating(script, op)
                               THEN [submits EXCEPT ![e] = @ + 1]
                               ELSE submits
                 /\ \/ /\ Mutating(script, op)
                       /\ jobState' = Put(jobState, t, [engine |-> e, state |-> "RUNNING"])
                       /\ threads' = [AfterSubmit(t, TRUE) EXCEPT ![sess].last_job = t]
                    \/ /\ jobState' = jobState
                       /\ threads' = AfterSubmit(t, TRUE)
    /\ UNCHANGED <<inputVars, mainpc, engine, idx, insertedBy, seenTerminal,
                   server_session, jobs, exitCode, mainErr, interrupted>>

\* dx_session_obj.jobs[key] = dx_session_obj.server_session.last_job
Track(t) ==
    /\ threads[t].pc = "track"
    /\ LET sess   == server_session
           lj     == threads[sess].last_job
           pol    == TrackPolicy(script, arguments.op)
           key    == IF pol = "own_hostname" THEN threads[t].eng ELSE SessionEngine(sess)
           stores == pol = "own_hostname" \/ (pol = "session_address" /\ lj # None)
       IN  /\ jobs' = IF stores THEN Put(jobs, key, lj) ELSE jobs
           /\ insertedBy' = IF stores THEN Put(insertedBy, key, t) ELSE insertedBy
    /\ threads' = [threads EXCEPT ![t].pc = "snap", ![t].thingstodo = FALSE]
    /\ UNCHANGED <<inputVars, mainpc, engine, idx, seenTerminal, server_session,
                   jobState, exitCode, mainErr, interrupted, submits>>

\* the for loop goes on with the keys ks it has not visited yet
ForLoop(t, thr, ks) ==
    [thr EXCEPT ![t].keys = ks, ![t].j = None, ![t].cur = "",
                ![t].pc = IF ks # {} THEN "fetch"
                          ELSE IF SleepInsideFor(script) THEN "loop"
                          ELSE "sleep"]

\* "for j in dx_session_obj.jobs.keys()": the list of keys is taken once; the
\* order of a dict's keys is arbitrary, so the keys still to visit are a set
Snap(t) ==
    /\ threads[t].pc = "snap"
    /\ threads' = ForLoop(t, threads, DOMAIN jobs)
    /\ UNCHANGED <<inputVars, mainpc, engine, idx, insertedBy, seenTerminal,
                   server_session, jobs, jobState, exitCode, mainErr, interrupted, submits>>

\* what job.get(session, handle) can return or raise
JobGet(sess, h) ==
    IF h = None THEN {"RequestError"}
    ELSE IF SessionEngine(sess) = jobState[h].engine
    THEN {jobState[h].state, "HttpError"}
    \* asked of another engine: no such job there, or a job of its own that
    \* happens to carry the same reference
    ELSE {"RequestError", "HttpError"} \cup
         {jobState[g].state : g \in {x \in DOMAIN jobState :
                                       jobState[x].engine = SessionEngine(sess)}}

\* a fetch that drops the entry when job.get raises
FetchDroppingFailed(t) ==
    /\ threads[t].pc = "fetch"
    /\ \E k \in threads[t].keys :
           IF k \notin DOMAIN jobs
           THEN /\ threads' = Fail(t, "KeyError")
                /\ UNCHANGED <<seenTerminal, jobs, insertedBy>>
           ELSE \E r \in JobGet(server_session, jobs[k]) :
                     /\ threads' = IF r \in JobStates
                                   THEN [threads EXCEPT ![t].pc = "retire", ![t].j = k,
                                                        ![t].cur = r,
                                                        ![t].polled = @ \cup {jobs[k]}]
                                   ELSE Fail(t, r)
                     /\ seenTerminal' = IF r \in Terminal
                                        THEN seenTerminal \cup {jobs[k]}
                                        ELSE seenTerminal
                     /\ jobs' = IF r \in JobStates THEN jobs ELSE Del(jobs, k)
                     /\ insertedBy' = IF r \in JobStates THEN insertedBy
                                      ELSE Del(insertedBy, k)
    /\ UNCHANGED <<inputVars, mainpc, engine, idx, server_session, jobState,
                   exitCode, mainErr, interrupted, submits>>

\* job_obj = job.get(dx_session_obj.server_session, dx_session_obj.jobs[j])
Fetch(t) ==
    /\ threads[t].pc = "fetch"
    /\ \E k \in threads[t].keys :
           IF k \notin DOMAIN jobs
           THEN /\ threads' = Fail(t, "KeyError")
                /\ UNCHANGED seenTerminal
           ELSE \E r \in JobGet(server_session, jobs[k]) :
                     /\ threads' = IF r \in JobStates
                                   THEN [threads EXCEPT ![t].pc = "retire", ![t].j = k,
                                                        ![t].cur = r,
                                                        ![t].polled = @ \cup {jobs[k]}]
                                   ELSE IF PollErrors(script, r) = "ERROR"
                                   THEN Fail(t, r)
                                   ELSE threads
                     /\ seenTerminal' = IF r \in Terminal
                                        THEN seenTerminal \cup {jobs[k]}
                                        ELSE seenTerminal
    /\ UNCHANGED <<inputVars, mainpc, engine, idx, insertedBy, server_session, jobs,
                   jobState, exitCode, mainErr, interrupted, submits>>

\* the next key of the for loop, or the end of the loop
NextKey(t, thr) == ForLoop(t, thr, thr[t].keys \ {thr[t].j})

\* "if job_obj.job_state in [CANCELED, COMPLETED, FAILED]: del jobs[j]"
Retire(t) ==
    /\ threads[t].pc = "retire"
    /\ LET k == threads[t].j
       IN  IF threads[t].cur \in Terminal
           THEN IF k \notin DOMAIN jobs
                THEN /\ threads' = Fail(t, "KeyError")
                     /\ UNCHANGED <<jobs, insertedBy>>
                ELSE /\ jobs' = Del(jobs, k)
                     /\ insertedBy' = Del(insertedBy, k)
                     /\ threads' = IF SleepInsideFor(script)
                                   THEN [threads EXCEPT ![t].pc = "sleep"]
                                   ELSE NextKey(t, threads)
           ELSE /\ UNCHANGED <<jobs, insertedBy>>
                /\ threads' = IF SleepInsideFor(script)
                              THEN [threads EXCEPT ![t].pc = "sleep"]
                              ELSE NextKey(t, threads)
    /\ UNCHANGED <<inputVars, mainpc, engine, idx, seenTerminal, server_session,
                   jobState, exitCode, mainErr, interrupted, submits>>

\* after the sleep statement: on with the for loop, or back to the while test
AfterSleep(t) ==
    IF SleepInsideFor(script) THEN NextKey(t, threads)
    ELSE [threads EXCEPT ![t].pc = "loop"]

\* "if len(dx_session_obj.jobs) > 0: sleep(float(arguments['--poll']))"
Sleep(t) ==
    /\ threads[t].pc = "sleep"
    /\ threads' = IF DOMAIN jobs # {}
                  THEN [threads EXCEPT ![t].pc = "sleeping"]
                  ELSE AfterSleep(t)
    /\ UNCHANGED <<inputVars, mainpc, engine, idx, insertedBy, seenTerminal,
                   server_session, jobs, jobState, exitCode, mainErr, interrupted, submits>>

\* sleep() returns after the poll interval
Wake(t) ==
    /\ threads[t].pc = "sleeping"
    /\ threads' = [AfterSleep(t) EXCEPT ![t].polled = {}]
    /\ UNCHANGED <<inputVars, mainpc, engine, idx, insertedBy, seenTerminal,
                   server_session, jobs, jobState, exitCode, mainErr, interrupted, submits>>

\* a while test that looks at the entries this thread stored only
LoopUntilOwnJobsGone(t) ==
    /\ threads[t].pc = "loop"
    /\ threads' = IF threads[t].thingstodo
                  THEN [threads EXCEPT ![t].pc = "submit"]
                  ELSE IF {k \in DOMAIN jobs : insertedBy[k] = t} # {}
                  THEN [threads EXCEPT ![t].pc = "snap"]
                  ELSE Ended(t, "DONE")
    /\ UNCHANGED <<inputVars, mainpc, engine, idx, insertedBy, seenTerminal,
                   server_session, jobs, jobState, exitCode, mainErr, interrupted, submits>>

\* a while test that looks at the work item only: "while len(thingstodo) > 0"
LoopOnWorkItemOnly(t) ==
    /\ threads[t].pc = "loop"
    /\ threads' = IF threads[t].thingstodo
                  THEN [threads EXCEPT ![t].pc = "submit"]
                  ELSE Ended(t, "DONE")
    /\ UNCHANGED <<inputVars, mainpc, engine, idx, insertedBy, seenTerminal,
                   server_session, jobs, jobState, exitCode, mainErr, interrupted, submits>>

\* "while len(dx_session_obj.jobs) > 0 or len(thingstodo) > 0", and in the
\* loop "if len(thingstodo) > 0": dispatch again, else on to the for loop
Loop(t) ==
    /\ threads[t].pc = "loop"
    /\ threads' = IF threads[t].thingstodo
                  THEN [threads EXCEPT ![t].pc = "submit"]
                  ELSE IF DOMAIN jobs # {}
                  THEN [threads EXCEPT ![t].pc = "snap"]
                  ELSE Ended(t, "DONE")
    /\ UNCHANGED <<inputVars, mainpc, engine, idx, insertedBy, seenTerminal,
                   server_session, jobs, jobState, exitCode, mainErr, interrupted, submits>>

\* the engine moves a job on: RUNNING and SUSPENDED are the only states left.
\* The program sees a job's state through its tracker entry only, so the
\* progress of a job that is not tracked is left out.
JobProgress(h) ==
    /\ jobState[h].state \in NonTerminal
    /\ \E k \in DOMAIN jobs : jobs[k] = h
    /\ \E st \in JobStates \ {jobState[h].state} :
         jobState' = [jobState EXCEPT ![h].state = st]
    /\ UNCHANGED <<inputVars, mainpc, engine, idx, insertedBy, seenTerminal,
                   threads, server_session, jobs, exitCode, mainErr, interrupted, submits>>

Next ==
    \/ GetConfig
    \/ RunJob
    \/ StartAll
    \/ StartOne
    \/ Join
    \/ Interrupt
    \/ \E t \in 1..Len(threads) : ServerSess(t)
    \/ \E t \in 1..Len(threads) : Submit(t)
    \/ \E t \in 1..Len(threads) : Track(t)
    \/ \E t \in 1..Len(threads) : Snap(t)
    \/ \E t \in 1..Len(threads) : Fetch(t)
    \/ \E t \in 1..Len(threads) : Retire(t)
    \/ \E t \in 1..Len(threads) : Sleep(t)
    \/ \E t \in 1..Len(threads) : Wake(t)
    \/ \E t \in 1..Len(threads) : Loop(t)
    \/ \E h \in DOMAIN jobState : JobProgress(h)

Spec == Init /\ [][Next]_vars

\* one step of the main thread
MainStep == GetConfig \/ RunJob \/ StartAll \/ StartOne \/ Join

\* one step of thread t
WorkerStep(t) ==
    /\ t \in 1..Len(threads)
    /\ \/ ServerSess(t) \/ Submit(t) \/ Track(t) \/ Snap(t) \/ Fetch(t)
       \/ Retire(t) \/ Sleep(t) \/ Wake(t) \/ Loop(t)

\* the engine brings job h to a terminal state
JobTerminates(h) ==
    /\ h \in DOMAIN jobState
    /\ JobProgress(h)
    /\ jobState'[h].state \in Terminal

\* fair scheduling: the main thread and every started thread keep running (a
\* sleep returns), and every job that is tracked reaches a terminal state
Fairness ==
    /\ WF_vars(MainStep)
    /\ \A t \in 1..MaxThreads : WF_vars(WorkerStep(t))
    /\ \A h \in 1..MaxThreads : WF_vars(JobTerminates(h))

\* the runs in which every engine accepts the requested operation
FairInit == Init /\ \A i \in DOMAIN accepts : accepts[i]

\* the steps of a run the operator does not interrupt
FairNext ==
    \/ GetConfig
    \/ RunJob
    \/ StartAll
    \/ StartOne
    \/ Join
    \/ \E t \in 1..Len(threads) : ServerSess(t)
    \/ \E t \in 1..Len(threads) : Submit(t)
    \/ \E t \in 1..Len(threads) : Track(t)
    \/ \E t \in 1..Len(threads) : Snap(t)
    \/ \E t \in 1..Len(threads) : Fetch(t)
    \/ \E t \in 1..Len(threads) : Retire(t)
    \/ \E t \in 1..Len(threads) : Sleep(t)
    \/ \E t \in 1..Len(threads) : Wake(t)
    \/ \E t \in 1..Len(threads) : Loop(t)
    \/ \E h \in DOMAIN jobState : JobProgress(h)

FairSpec == FairInit /\ [][FairNext]_vars /\ Fairness

-----------------------------------------------------------------------------
(* lib/GetReferences.py: functions of their arguments and of what the      *)
(* engine lists, each applied to a call drawn from bounded sets            *)

\* the engine lists at most this many objects of a class
MaxObjs == 3

ObjNames == {"a", "b"}

\* the i-th object f_class.get_all(engine) yields
Obj(i, n) == [name |-> n, reference |-> i, active_branch |-> 0 - i]

\* f_class.get_all(engine) for a class whose objects carry these names
GetAll(names) == [i \in 1..Len(names) |-> Obj(i, names[i])]

NameLists == UNION {[1..n -> ObjNames] : n \in 0..MaxObjs}

\* an object class: one with get_all and its objects, or one without get_all
Classes ==
    {[has_get_all |-> TRUE, objs |-> GetAll(names)] : names \in NameLists}
        \cup {[has_get_all |-> FALSE, objs |-> <<>>]}

\* "for obj in all_objs" of find_obj_by_name from the i-th object on
RECURSIVE ForObjByName(_, _, _, _)
ForObjByName(all_objs, obj_name, active_branch, i) ==
    IF i > Len(all_objs)
    THEN Raise("DlpxException")
    ELSE IF all_objs[i].name = obj_name
    THEN CASE active_branch = FALSE -> Return(all_objs[i])
           [] active_branch = TRUE  ->
                  Return(<<all_objs[i].reference, all_objs[i].active_branch>>)
           [] OTHER                 -> Return(all_objs[i])
    ELSE ForObjByName(all_objs, obj_name, active_branch, i + 1)

\* a lookup that gives None back when nothing matches, as find_obj_list does
find_obj_by_name_or_none(f_class, obj_name, active_branch) ==
    IF ~f_class.has_get_all
    THEN Raise("DlpxException")
    ELSE LET r == ForObjByName(f_class.objs, obj_name, active_branch, 1)
         IN  IF r.kind = "raise" THEN Return(None) ELSE r

\* find_obj_by_name(engine, f_class, obj_name, active_branch)
find_obj_by_name(f_class, obj_name, active_branch) ==
    IF ~f_class.has_get_all
    THEN Raise("DlpxException")
    ELSE ForObjByName(f_class.objs, obj_name, active_branch, 1)

\* the calls of find_obj_by_name explored
FindObjByNameCalls ==
    {[fn |-> "find_obj_by_name",
      args |-> [f_class |-> c, obj_name |-> n, active_branch |-> b],
      done |-> FALSE, result |-> NoResult] :
        c \in Classes, n \in ObjNames, b \in BOOLEAN}

\* find_sourceconfig(engine, sourceconfig_name, f_environment_ref): the body of
\* "for obj in all_objs" returns or raises at the first object; an empty list
\* falls off the end of the function
find_sourceconfig(all_objs, sourceconfig_name) ==
    IF Len(all_objs) = 0
    THEN Return(None)
    ELSE IF all_objs[1].name = sourceconfig_name
    THEN Return(all_objs[1])
    ELSE Raise("DlpxException")

\* the calls of find_sourceconfig explored: all_objs is what
\* sourceconfig.get_all(engine, environment=f_environment_ref) yields
FindSourceconfigCalls ==
    {[fn |-> "find_sourceconfig",
      args |-> [all_objs |-> GetAll(names), sourceconfig_name |-> n],
      done |-> FALSE, result |-> NoResult] :
        names \in NameLists, n \in ObjNames}

\* a string is the sequence of its characters
LowerCase == <<"a", "b", "c", "d", "e", "f", "g", "h", "i", "j", "k", "l", "m",
               "n", "o", "p", "q", "r", "s", "t", "u", "v", "w", "x", "y", "z">>
UpperCase == <<"A", "B", "C", "D", "E", "F", "G", "H", "I", "J", "K", "L", "M",
               "N", "O", "P", "Q", "R", "S", "T", "U", "V", "W", "X", "Y", "Z">>

\* str.upper() and str.lower()
Upper(str) ==
    [i \in 1..Len(str) |->
        IF \E n \in DOMAIN LowerCase : LowerCase[n] = str[i]
        THEN UpperCase[CHOOSE n \in DOMAIN LowerCase : LowerCase[n] = str[i]]
        ELSE str[i]]
Lower(str) ==
    [i \in 1..Len(str) |->
        IF \E n \in DOMAIN UpperCase : UpperCase[n] = str[i]
        THEN LowerCase[CHOOSE n \in DOMAIN UpperCase : UpperCase[n] = str[i]]
        ELSE str[i]]

\* the alternatives of the pattern 'RUNNING|SUSPENDED|CANCELED|COMPLETED|FAILED'
StatePattern ==
    {<<"R", "U", "N", "N", "I", "N", "G">>,
     <<"S", "U", "S", "P", "E", "N", "D", "E", "D">>,
     <<"C", "A", "N", "C", "E", "L", "E", "D">>,
     <<"C", "O", "M", "P", "L", "E", "T", "E", "D">>,
     <<"F", "A", "I", "L", "E", "D">>}

\* re.match(pattern, str) for a pattern of literal alternatives: one of them
\* stands at the start of str
ReMatch(alternatives, str) ==
    \E w \in alternatives : Len(w) <= Len(str) /\ SubSeq(str, 1, Len(w)) = w

\* sys.exit(code)
Exit(code) == [kind |-> "exit", value |-> code]

\* list_jobs() with arguments['--state'] = state (<<>>: not given); what it
\* returns is the query job.get_all was called with
list_jobs(state) ==
    IF state # <<>>
    THEN IF ReMatch(StatePattern, Upper(state))
         THEN Return([filtered |-> TRUE, job_state |-> Upper(state)])
         ELSE Exit(1)
    ELSE Return([filtered |-> FALSE, job_state |-> <<>>])

\* values of --state close to the name w
StateValuesNear(w) ==
    {w, Lower(w), w \o <<"X">>, Lower(w) \o <<"x">>, <<"X">> \o w,
     w \o <<" ">>, SubSeq(w, 1, Len(w) - 1), SubSeq(w, 2, Len(w))}

\* the calls of list_jobs explored
ListJobsCalls ==
    {[fn |-> "list_jobs", args |-> [state |-> v],
      done |-> FALSE, result |-> NoResult] :
        v \in {<<>>} \cup UNION {StateValuesNear(w) : w \in StatePattern}}

LibCalls == FindObjByNameCalls \cup FindSourceconfigCalls \cup ListJobsCalls

\* the variables of a run of a script
runVars == <<script, arguments, dlpx_engines, accepts, mainpc, engine, idx,
             threads, server_session, jobs, jobState, exitCode, mainErr,
             interrupted, submits, insertedBy, seenTerminal>>

\* a call is about to be made in a process that has started nothing yet
LibInit ==
    /\ call \in LibCalls
    /\ script = "dx_environment"
    /\ dlpx_engines = <<>>
    /\ accepts = <<>>
    /\ arguments = [op |-> "delete_env", all |-> FALSE, engine |-> None]
    /\ mainpc = "main"
    /\ engine = None
    /\ idx = 1
    /\ threads = <<>>
    /\ server_session = None
    /\ jobs = EmptyDict
    /\ jobState = EmptyDict
    /\ exitCode = Unbound
    /\ mainErr = NoError
    /\ interrupted = FALSE
    /\ submits = [e \in EngineNames |-> 0]
    /\ insertedBy = EmptyDict
    /\ seenTerminal = {}

FindObjByName ==
    /\ call.fn = "find_obj_by_name"
    /\ ~call.done
    /\ call' = [call EXCEPT !.done = TRUE,
                            !.result = find_obj_by_name(call.args.f_class,
                                                        call.args.obj_name,
                                                        call.args.active_branch)]
    /\ UNCHANGED runVars

FindSourceconfig ==
    /\ call.fn = "find_sourceconfig"
    /\ ~call.done
    /\ call' = [call EXCEPT !.done = TRUE,
                            !.result = find_sourceconfig(call.args.all_objs,
                                                         call.args.sourceconfig_name)]
    /\ UNCHANGED runVars

ListJobs ==
    /\ call.fn = "list_jobs"
    /\ ~call.done
    /\ call' = [call EXCEPT !.done = TRUE, !.result = list_jobs(call.args.state)]
    /\ UNCHANGED runVars

LibNext ==
    \/ FindObjByName
    \/ FindSourceconfig
    \/ ListJobs

LibSpec == LibInit /\ [][LibNext]_vars

TypeOK ==
    /\ script \in Scripts
    /\ mainpc \in {"main", "run_job", "start_all", "start_one", "join", "exited"}
    /\ Len(threads) <= MaxThreads
    /\ DOMAIN jobs \subseteq EngineNames
    /\ DOMAIN insertedBy = DOMAIN jobs
    /\ server_session \in {None} \cup (1..Len(threads))

-----------------------------------------------------------------------------
(* Notions the properties are stated in                                    *)

ThreadSet == 1..Len(threads)

\* the number of target engines the command line and the configuration name
NumTargets ==
    IF arguments.all THEN NumEngines
    ELSE IF arguments.engine # None
    THEN (IF arguments.engine \in Configured THEN 1 ELSE 0)
    ELSE (IF \E i \in 1..NumEngines : dlpx_engines[i].default THEN 1 ELSE 0)

\* run_job has chosen its targets (it was neither interrupted nor kept from
\* starting by a configuration that could not be read)
Resolved ==
    /\ mainpc \notin {"main", "run_job"}
    /\ mainErr.what \notin {"config", "interrupt"}

\* run_job has started every thread it starts
AllStarted == mainpc = "join" \/ (mainpc = "exited" /\ mainErr = NoError)

DefaultMode == ~arguments.all /\ arguments.engine = None

SomeDefault == \E i \in 1..NumEngines : dlpx_engines[i].default

\* thread t's submit raised (whether or not the thread went on)
SubmitFailed(t) == threads[t].at = "submit" /\ threads[t].err # ""

\* the job thread t's submit created is in the tracker
OwnJobTracked(t) == \E k \in DOMAIN jobs : jobs[k] = t

\* how the run ended, as the operator sees it
Outcome ==
    IF interrupted THEN "interrupted"
    ELSE IF mainErr # NoError THEN "configuration"
    ELSE IF \E t \in ThreadSet : threads[t].pc = "ERROR" THEN "engine failed"
    ELSE "success"

\* the status main's handlers give an outcome: a configuration error reaches
\* main as DlpxException, a failed engine operation as JobError
OutcomeCode(o) ==
    CASE o = "configuration" -> MainExitCode(script, "DlpxException")
      [] o = "engine failed" -> MainExitCode(script, "JobError")
      [] o = "interrupted"   -> MainExitCode(script, "KeyboardInterrupt")

\* thread t issues a remote call (a submit or a job status fetch) in this step
RemoteCallBy(t) ==
    \/ threads[t].pc = "submit" /\ threads'[t].pc # "submit"
    \/ /\ threads[t].pc = "fetch"
       /\ threads'[t].pc # "fetch"
       /\ threads'[t].err # "KeyError"

-----------------------------------------------------------------------------
(* The properties                                                          *)

\* C1: run_job starts one thread per target engine: never more threads than
\* target engines, and once all are started, exactly one thread for each
\* target (N under --all, one under --engine <name> or the default engine).
C1_OneWorkerPerTarget ==
    /\ Len(threads) <= NumTargets
    /\ AllStarted =>
         /\ Len(threads) = NumTargets
         /\ \A t, u \in ThreadSet : t # u => threads[t].eng # threads[u].eng
         /\ \A t \in ThreadSet : threads[t].eng \in Configured

\* C2: in one run no engine receives more than one mutating call.
C2_AtMostOneSubmitPerEngine == \A e \in EngineNames : submits[e] <= 1

\* C3: --engine with a name that is not configured: the run ends at once with
\* the unknown-engine error, a nonzero status, and no thread started.
C3_UnknownEngineStartsNoWorker ==
    (/\ ~arguments.all
     /\ arguments.engine # None
     /\ arguments.engine \notin Configured
     /\ Resolved)
    => /\ mainpc = "exited"
       /\ mainErr.what = "unknown engine"
       /\ exitCode # 0
       /\ Len(threads) = 0

\* C4: default mode with an engine marked default: run_job starts one thread,
\* and it targets an engine marked default, wherever that engine is listed.
C4_DefaultEngineTargeted ==
    (DefaultMode /\ SomeDefault /\ Resolved)
    => /\ mainErr = NoError
       /\ mainpc # "start_one" =>
            /\ Len(threads) = 1
            /\ threads[1].eng \in Configured
            /\ dlpx_engines[threads[1].eng].default

\* C5: default mode with no engine marked default: the run ends at once with
\* the no-default-engine error, a nonzero status, and no thread started.
C5_NoDefaultFails ==
    (DefaultMode /\ ~SomeDefault /\ Resolved)
    => /\ mainpc = "exited"
       /\ mainErr.what = "no default engine"
       /\ exitCode # 0
       /\ Len(threads) = 0

\* C6: when run_job has returned (every thread was started and has ended),
\* the process exits with status 0 only if every thread ended in DONE; if a
\* thread ended in ERROR the status is not 0.
C6_ExitReflectsWorkers ==
    (mainpc = "exited" /\ mainErr = NoError /\ \A t \in ThreadSet : Finished(t))
    => /\ exitCode = 0 => \A t \in ThreadSet : threads[t].pc = "DONE"
       /\ (\E t \in ThreadSet : threads[t].pc = "ERROR") => exitCode # 0

\* C7: the exit status tells a configuration error, a failed engine operation
\* and an interrupt apart, and none of them has the status 0 of a success.
C7_ExitCodesDistinct ==
    (mainpc = "exited" /\ (\A t \in ThreadSet : Finished(t)) /\ Outcome # "success")
    => /\ exitCode # 0
       /\ exitCode \notin {OutcomeCode(o) :
                               o \in {"configuration", "engine failed", "interrupted"}
                                      \ {Outcome}}

\* C8: a submission error of the thread of engine A leaves the thread of
\* another engine B to its own fate: B's submit is not rejected unless B's
\* own engine rejects the operation.
C8_SubmitErrorIsolated ==
    \A a, b \in ThreadSet :
        (/\ a # b
         /\ threads[a].eng # threads[b].eng
         /\ SubmitFailed(a)
         /\ SubmitFailed(b)
         /\ threads[b].err \in {"RequestError", "DlpxException"})
        => ~accepts[threads[b].eng]

\* C9: a thread whose work item is consumed and whose own job is terminal and
\* retired does not sleep for the poll interval because of the job of
\* another engine's thread that is still RUNNING or SUSPENDED.
C9_NoWaitForOtherEngine ==
    \A b \in ThreadSet :
        (/\ threads[b].pc = "sleeping"
         /\ ~threads[b].thingstodo
         /\ b \in DOMAIN jobState
         /\ jobState[b].state \in Terminal
         /\ ~OwnJobTracked(b))
        => ~\E k \in DOMAIN jobs :
               /\ jobs[k] \notin {None, b}
               /\ threads[jobs[k]].eng # threads[b].eng
               /\ jobState[jobs[k]].state \in NonTerminal

\* C10: every submit and every job status fetch of a thread goes through the
\* session that thread opened itself.
C10_OwnSessionOnly ==
    [][\A t \in ThreadSet : RemoteCallBy(t) => server_session = t]_vars

\* thread t fetches the status of the entry under key k in this step
Polls(t, k) ==
    /\ threads[t].pc = "fetch"
    /\ threads'[t].pc # "fetch"
    /\ threads'[t].err # "KeyError"
    /\ k \in threads[t].keys
    /\ (threads'[t].pc = "retire" => threads'[t].j = k)

\* thread t removes the entry under key k in this step
Removes(t, k) ==
    /\ threads[t].pc = "retire"
    /\ threads[t].j = k
    /\ k \in DOMAIN jobs
    /\ k \notin DOMAIN jobs'

\* C11: the tracker of a thread is private to it: a thread never fetches the
\* status of, nor removes, an entry that another thread stored.
C11_TrackerPrivate ==
    [][\A t \in ThreadSet : \A k \in DOMAIN jobs :
           (Removes(t, k) \/ (threads'[t].pc = "retire" /\ Polls(t, k)))
           => insertedBy[k] = t]_vars

\* the handle h stands for a job that has not reached a terminal state
Outstanding(h) == h # None /\ jobState[h].state \in NonTerminal

\* C12: a tracking key holds one handle at a time (jobs is a dict), and storing
\* a handle under a key never replaces a different handle that is still
\* outstanding under that key.
C12_NoOverwriteOfOutstanding ==
    [][\A k \in DOMAIN jobs :
           (k \in DOMAIN jobs' /\ jobs'[k] # jobs[k]) => ~Outstanding(jobs[k])]_vars

\* the entries of the tracker that thread t stored
OwnEntries(t) == {k \in DOMAIN jobs : insertedBy[k] = t}

\* C13 as stated: in every state the tracker of a thread is empty exactly when
\* the thread is in DONE.
C13_TrackerEmptyIffDone ==
    \A t \in ThreadSet : OwnEntries(t) = {} <=> threads[t].pc = "DONE"

\* C13 amended: a thread that is in DONE has no entry in the tracker (the
\* converse fails: the tracker is empty before the submit and may be in ERROR).
C13_DoneHasEmptyTracker ==
    \A t \in ThreadSet : threads[t].pc = "DONE" => OwnEntries(t) = {}

\* a thread is in DONE after the job it stored was polled to its end and removed
C13_Witness ==
    \E t \in ThreadSet :
        /\ threads[t].pc = "DONE"
        /\ TrackPolicy(script, arguments.op) # "none"
        /\ \E h \in DOMAIN jobState : jobState[h].state \in Terminal
        /\ jobs = EmptyDict

\* thread t is handed the status of the entry under key k in this step
Observes(t, k) ==
    /\ threads[t].pc = "fetch"
    /\ threads'[t].pc = "retire"
    /\ threads'[t].j = k

\* C14: once a fetch has reported a job terminal, no thread fetches the status
\* of that job again.
C14_RetiredNeverPolledAgain ==
    [][\A t \in ThreadSet : \A k \in DOMAIN jobs :
           Observes(t, k) => jobs[k] \notin seenTerminal]_vars

\* job.get raised in thread t in this step (a transport or request error)
FetchFails(t) ==
    /\ threads[t].pc = "fetch"
    /\ threads'[t].err \in {"HttpError", "RequestError"}
    /\ threads'[t].at = "fetch"

\* C15: a status fetch that fails leaves the tracker as it was: the entry whose
\* fetch failed is still there after the step.
C15_FailedFetchKeepsEntry ==
    [][\A t \in ThreadSet : FetchFails(t) => jobs' = jobs]_vars

\* a fetch has failed in some thread and the tracker still holds an entry
C15_Witness ==
    \E t \in ThreadSet :
        /\ threads[t].at = "fetch"
        /\ threads[t].err = "HttpError"
        /\ jobs # EmptyDict

\* C16: a status fetch that fails with a transport error does not end the
\* thread's loop: the thread stays in its poll loop, to fetch that job's status
\* again in a later cycle.
C16_PollFailureRetried ==
    [][\A t \in ThreadSet :
           (FetchFails(t) /\ threads'[t].err = "HttpError") => ~Finished(t)']_vars

\* C17: a thread dispatches its work item at most once: it comes to the
\* dispatch only from opening its session, never from a later pass of its loop,
\* whether its submit succeeded or failed.
C17_SubmitAtMostOnce ==
    [][\A t \in ThreadSet :
           (threads'[t].pc = "submit" /\ threads[t].pc # "submit")
           => threads[t].pc = "serversess"]_vars

\* a thread that has submitted is at its while test again with a job tracked
C17_Witness ==
    \E t \in ThreadSet :
        /\ threads[t].pc = "loop"
        /\ jobs # EmptyDict
        /\ \E e \in EngineNames : submits[e] > 0

\* C18: a thread fetches a job's status only after its own dispatch is done
\* (the work item is consumed) and only for a handle that a submit created and
\* that was stored in the tracker: no job is polled before it is submitted.
C18_SubmitBeforePoll ==
    [][\A t \in ThreadSet : \A k \in DOMAIN jobs :
           Observes(t, k) => /\ ~threads[t].thingstodo
                             /\ jobs[k] \in DOMAIN jobState
                             /\ \E e \in EngineNames : submits[e] > 0]_vars

\* a thread has fetched the status of the job its own submit created and stored
C18_Witness ==
    \E t \in ThreadSet :
        /\ threads[t].pc = "retire"
        /\ threads[t].j \in DOMAIN jobs
        /\ jobs[threads[t].j] = t
        /\ insertedBy[threads[t].j] = t

\* run_job has returned to main, which printed its last line
Returned == mainpc = "exited" /\ mainErr = NoError

\* C19: run_job returns, and main prints its final line, only when every
\* thread that was started has ended (in DONE or in ERROR).
C19_JoinBeforeFinalLine == Returned => \A t \in ThreadSet : Finished(t)

\* run_job has returned after two threads ended, one of them having polled a job
C19_Witness ==
    /\ Returned
    /\ Len(threads) = 2
    /\ \E t \in ThreadSet : threads[t].pc = "DONE"
    /\ jobState # EmptyDict

\* something the liveness claim assumes away has happened: a configuration
\* error or an interrupt, a session that did not open, a remote call that failed
EnvFailure ==
    \/ interrupted
    \/ mainErr # NoError
    \/ \E t \in ThreadSet :
           threads[t].err \in {"DlpxException", "HttpError", "RequestError", "TypeError"}

\* C20: under fair scheduling, unless a session fails to open or a remote call
\* fails, every thread eventually is in DONE and run_job eventually returns,
\* for any number of engines.
C20_EventuallyAllDone ==
    <>(EnvFailure \/ (Returned /\ \A t \in ThreadSet : threads[t].pc = "DONE"))

\* thread t issues its submit in this step
SubmitsNow(t) == threads[t].pc = "submit" /\ threads'[t].pc # "submit"

\* thread t starts a poll cycle in this step (it takes the list of the keys)
StartsCycle(t) == threads[t].pc = "snap" /\ threads'[t].pc # "snap"

\* C21: once the operator has interrupted the run, no thread issues a submit
\* and no thread starts a further poll cycle.
C21_InterruptStopsWorkers ==
    [][interrupted => \A t \in ThreadSet : ~SubmitsNow(t) /\ ~StartsCycle(t)]_vars

\* thread t logs a terminal status for the entry under key k in this step
LogsTerminal(t, k) == Observes(t, k) /\ threads'[t].cur \in Terminal

\* C22: in a run against several engines the terminal status of a job is
\* logged once: no thread logs a terminal status for a job for which one was
\* logged before.
C22_CompletionLoggedOnce ==
    [][\A t \in ThreadSet : \A k \in DOMAIN jobs :
           LogsTerminal(t, k) => jobs[k] \notin seenTerminal]_vars

\* the name lookup of thread t's operation fails in this step
ResolveFails(t) ==
    /\ SubmitsNow(t)
    /\ threads'[t].err = "DlpxException"
    /\ threads'[t].at = "submit"

\* C23: a name that cannot be resolved aborts the submission of the engine that
\* lacks it and of no other: the failing step issues no mutating call, and it
\* happens only to the thread of an engine that does not hold the name.
C23_ResolveFailureLocal ==
    [][\A t \in ThreadSet :
           ResolveFails(t) => /\ submits' = submits
                              /\ ~accepts[threads[t].eng]]_vars

\* the while loop of thread t ends in this step because its test is false
EndsNormally(t) == threads[t].pc # "DONE" /\ threads'[t].pc = "DONE"

\* C24: the poll loop of a thread ends normally only when the job tracker is
\* empty and no work item is left; no tracked job is non-terminal at that point.
C24_LoopEndsOnEmptyTracker ==
    [][\A t \in ThreadSet :
           EndsNormally(t) => /\ jobs = EmptyDict
                              /\ ~threads[t].thingstodo
                              /\ jobs' = EmptyDict]_vars

\* a thread ended its loop after the job it created was seen terminal and retired
C24_Witness ==
    \E t \in ThreadSet :
        /\ threads[t].pc = "DONE"
        /\ t \in DOMAIN jobState
        /\ jobState[t].state \in Terminal
        /\ t \in seenTerminal
        /\ jobs = EmptyDict

\* the operation thread t submitted raised an error
SubmitRaised(t) ==
    /\ threads[t].at = "submit"
    /\ threads[t].err \in {"HttpError", "RequestError", "DlpxException"}

\* C25: a thread whose submit raised an error is in ERROR from then on: it
\* takes no step of a poll cycle and is never in DONE.
C25_SubmitErrorEndsWorker ==
    \A t \in ThreadSet : SubmitRaised(t) => threads[t].pc = "ERROR"

\* serversess raised DlpxException in thread t
SessionFailed(t) ==
    /\ threads[t].at = "serversess"
    /\ threads[t].err = "DlpxException"

\* serversess raises DlpxException in thread t in this step
SessionFails(t) == threads[t].pc = "serversess" /\ SessionFailed(t)'

\* C26: a thread whose session could not be opened ends in ERROR at once and
\* stays there, without a submit or a status fetch; the failure changes neither
\* the shared session, the tracker, the jobs nor any other thread.
C26_SessionFailureLocal ==
    [][\A t \in ThreadSet :
           /\ SessionFails(t) =>
                  /\ threads'[t].pc = "ERROR"
                  /\ UNCHANGED <<server_session, jobs, jobState, submits>>
                  /\ \A u \in ThreadSet \ {t} : threads'[u] = threads[u]
           /\ SessionFailed(t) => threads'[t] = threads[t]]_vars

\* one thread failed to open its session and another submitted and ran to DONE
C26_Witness ==
    \E t, u \in ThreadSet :
        /\ SessionFailed(t)
        /\ threads[t].pc = "ERROR"
        /\ u # t
        /\ threads[u].pc = "DONE"
        /\ submits[threads[u].eng] > 0

\* C27: the tracker holds job handles only: a submit that the engine completed
\* without creating a job inserts nothing.
C27_NoEntryWithoutHandle ==
    \A k \in DOMAIN jobs : jobs[k] # None

\* C28: a handle in the tracker is the handle of the job that the submit of the
\* thread which stored it created, on that thread's engine (a job carries the
\* number of the thread whose submit created it).
C28_TrackedHandleIsOwn ==
    \A k \in DOMAIN jobs :
        jobs[k] # None => /\ jobs[k] = insertedBy[k]
                          /\ jobState[jobs[k]].engine = threads[insertedBy[k]].eng

\* thread t acts in this step on a fetched status that is not terminal
KeepsEntry(t) ==
    /\ threads[t].pc = "retire"
    /\ threads[t].cur \in NonTerminal
    /\ threads'[t].pc # "retire"

\* C29: an entry leaves the tracker only when a fetch returned a terminal status
\* for the job it holds; a thread that fetched RUNNING or SUSPENDED leaves the
\* tracker as it is and goes on with its loop.
C29_RemovedOnlyWhenTerminal ==
    [][/\ \A k \in DOMAIN jobs :
              k \notin DOMAIN jobs' => jobs[k] \in seenTerminal
       /\ \A t \in ThreadSet :
              KeepsEntry(t) => jobs' = jobs /\ ~Finished(t)']_vars

\* thread t starts to sleep in this step
GoesToSleep(t) == threads[t].pc = "sleep" /\ threads'[t].pc = "sleeping"

\* C30: when a thread starts to sleep, it has fetched every key of the cycle,
\* and the key whose status it fetched as terminal is no longer in the tracker.
C30_CycleCompleteBeforeSleep ==
    [][\A t \in ThreadSet :
           GoesToSleep(t) =>
               /\ threads[t].keys \ {threads[t].j} = {}
               /\ threads[t].cur \in Terminal => threads[t].j \notin DOMAIN jobs]_vars

\* C31: a thread starts to sleep only with a tracker that is not empty, and it
\* does not fetch the status of a job twice without a sleep in between.
C31_SleepBetweenFetches ==
    [][\A t \in ThreadSet :
           /\ GoesToSleep(t) => jobs # EmptyDict
           /\ \A k \in DOMAIN jobs :
                  Observes(t, k) => jobs[k] \notin threads[t].polled]_vars

\* C32: the for loop of a thread never looks up or deletes a key that is no
\* longer in the tracker: no thread is ended by a KeyError.
C32_NoKeyError ==
    \A t \in ThreadSet : threads[t].err # "KeyError"

\* C33: a submit that raised leaves the tracker as it was, and the thread whose
\* submit raised stores no entry afterwards either.
C33_FailedSubmitKeepsTracker ==
    [][\A t \in ThreadSet :
           SubmitRaised(t)' =>
               /\ SubmitsNow(t) => jobs' = jobs /\ insertedBy' = insertedBy
               /\ threads'[t].pc # "track"
               /\ \A k \in DOMAIN insertedBy' : insertedBy'[k] # t]_vars

\* the submit of a tracking operation raised in one thread, which has ended
\* without an entry of its own, while the tracker holds another thread's job
C33_Witness ==
    \E t \in ThreadSet :
        /\ SubmitRaised(t)
        /\ Finished(t)
        /\ TrackPolicy(script, arguments.op) # "none"
        /\ jobs # EmptyDict
        /\ \A k \in DOMAIN insertedBy : insertedBy[k] # t

\* a call of fn has returned or raised
Called(fn) == call.fn = fn /\ call.done

\* the positions of the objects of the class that carry the name asked for
Matches == {i \in DOMAIN call.args.f_class.objs :
                call.args.f_class.objs[i].name = call.args.obj_name}

\* the first of them in get_all order
FirstMatch == CHOOSE i \in Matches : \A m \in Matches : i <= m

HasSourceconfig ==
    \E i \in DOMAIN call.args.all_objs :
        call.args.all_objs[i].name = call.args.sourceconfig_name

\* C35: find_sourceconfig returns the source config of the name asked for
\* whenever the environment's list holds one, at whatever position.
C35_FindSourceconfig ==
    (Called("find_sourceconfig") /\ HasSourceconfig) =>
        /\ call.result.kind = "return"
        /\ call.result.value.name = call.args.sourceconfig_name

\* C36: list_jobs queries the engine with a --state value only if the value,
\* uppercased, is exactly one of the five state names; for any other value it
\* exits with status 1 and has not queried.
C36_StateValidated ==
    (Called("list_jobs") /\ call.args.state # <<>>) =>
        IF Upper(call.args.state) \in StatePattern
        THEN call.result.kind = "return"
        ELSE call.result = Exit(1)

====
